---- MODULE Spec2Model ----
(***************************************************************************)
(* A model of whatsapp_clone.py: the rewrite rules SmaliProcessor and       *)
(* XmlProcessor apply to a file's text, and the run that validates the      *)
(* configuration and processes the .smali files, then the .xml files,       *)
(* through a thread pool.                                                   *)
(*                                                                          *)
(* Text is a sequence of one-character strings, so that the regular         *)
(* expressions of the source are matched character by character.            *)
(***************************************************************************)
EXTENDS Integers, Sequences, FiniteSets, TLC

(***************************************************************************)
(* String literals of the source.                                          *)
(***************************************************************************)
COM == <<"c","o","m">>
WHATSAPP == <<"w","h","a","t","s","a","p","p">>
W4B == <<"w","4","b">>
DOT == <<".">>
SLASH == <<"/">>
BUSINESS == <<"B","u","s","i","n","e","s","s">>
FOLDER_WHATSAPP == <<"W","h","a","t","s","A","p","p">>
FOLDER_BUSINESS == <<"W","h","a","t","s","A","p","p"," ","B","u","s","i","n","e","s","s">>
\* The name setup_interactively sets for WhatsApp Business: a no-break space
\* (code point 160) stands between the two words.
FOLDER_BUSINESS_NBSP ==
    <<"W","h","a","t","s","A","p","p","chr(160)","B","u","s","i","n","e","s","s">>
STICKER_HEAD == <<"a","n","d","r","o","i","d",":","n","a","m","e","=","\"">>
STICKER_TAIL == <<".","s","t","i","c","k","e","r",".","R","E","A","D","\"">>

OFFICIAL_MODULES ==
    << <<"a","b","o","r","t","h","o","o","k","s">>,
       <<"a","d","s","c","r","e","a","t","i","o","n">>,
       <<"a","n","r">>,
       <<"a","u","d","i","o","R","e","c","o","r","d","i","n","g">>,
       <<"b","r","e","a","k","p","a","d">>,
       <<"c","a","l","l","i","n","g">>,
       <<"f","i","e","l","d","s","t","a","t","s">>,
       <<"f","i","l","t","e","r">>,
       <<"i","n","f","r","a">>,
       <<"j","i","d">>,
       <<"m","e","d","i","a">>,
       <<"m","e","s","s","a","g","e","t","r","a","n","s","l","a","t","i","o","n">>,
       <<"n","a","t","i","v","e","l","i","b","l","o","a","d","e","r">>,
       <<"p","r","o","t","o","c","o","l">>,
       <<"p","y","t","o","r","c","h">>,
       <<"s","t","i","c","k","e","r","s">>,
       <<"s","u","p","e","r","p","a","c","k">>,
       <<"u","n","i","t","y">>,
       <<"u","t","i","l">>,
       <<"v","o","i","p","c","a","l","l","i","n","g">>,
       <<"w","a","m","s","y","s">>,
       <<"e","x","e","c","u","t","o","r","c","h">>,
       <<"g","w","p","a","s","a","n">>,
       <<"v","o","i","c","e","t","r","a","n","s","c","r","i","p","t","i","o","n">>,
       <<"A","p","p","S","h","e","l","l">>,
       <<"G","i","f","H","e","l","p","e","r">>,
       <<"M","p","4","O","p","s">>,
       <<"N","a","t","i","v","e","M","e","d","i","a","H","a","n","d","l","e","r">>,
       <<"S","m","b","A","p","p","S","h","e","l","l">>,
       <<"S","q","l","i","t","e","S","h","e","l","l">>,
       <<"S","t","i","c","k","y","H","e","a","d","e","r","s","R","e","c","y","c","l","e","r","V","i","e","w">>,
       <<"V","i","d","e","o","F","r","a","m","e","C","o","n","v","e","r","t","e","r">>,
       <<"o","h","a","i">>,
       <<"W","a","O","h","a","i","C","l","i","e","n","t">>,
       <<"p","r","o","d","u","c","t","i","n","f","r","a">>,
       <<"m","u","s","i","c">>,
       <<"a","p","i">>,
       <<"M","u","s","i","c","A","p","i">> >>

(***************************************************************************)
(* The fragment of Python's re the source uses.  A pattern is a sequence   *)
(* of parts: a literal, a capturing group of literal alternatives tried in *)
(* order, an optional capturing group (greedy), a negative lookahead.  A   *)
(* replacement template is a text that re parses into literal texts and    *)
(* group references.                                                       *)
(***************************************************************************)
Lit(s) == [k |-> "lit", s |-> s]
Grp(alts) == [k |-> "grp", alts |-> alts]
Opt(s) == [k |-> "opt", s |-> s]
Nla(s) == [k |-> "nla", s |-> s]
Txt(s) == [k |-> "txt", s |-> s]
Ref(n) == [k |-> "ref", n |-> n]

NoMatch == [ok |-> FALSE, end |-> 0, g |-> <<>>]

StartsAt(s, i, lit) ==
    /\ i + Len(lit) - 1 <= Len(s)
    /\ \A j \in 1..Len(lit) : s[i + j - 1] = lit[j]

\* Python's `sub in s` for a non-empty sub.
Contains(s, sub) == \E i \in 1..Len(s) : StartsAt(s, i, sub)

RECURSIVE MatchFrom(_, _, _, _, _)

\* The parts pat[k..] matched at position i of s; g holds the groups captured
\* so far.  end is the position after the match.
MatchFrom(s, i, pat, k, g) ==
    IF k > Len(pat) THEN [ok |-> TRUE, end |-> i, g |-> g]
    ELSE LET p == pat[k] IN
         CASE p.k = "lit" ->
                IF StartsAt(s, i, p.s)
                THEN MatchFrom(s, i + Len(p.s), pat, k + 1, g)
                ELSE NoMatch
           [] p.k = "grp" ->
                \* the alternatives in order: the first one after which the
                \* rest of the pattern matches
                LET fits == {a \in 1..Len(p.alts) :
                                /\ StartsAt(s, i, p.alts[a])
                                /\ MatchFrom(s, i + Len(p.alts[a]), pat, k + 1,
                                             Append(g, p.alts[a])).ok}
                    first == CHOOSE a \in fits : \A b \in fits : a <= b
                IN IF fits = {} THEN NoMatch
                   ELSE MatchFrom(s, i + Len(p.alts[first]), pat, k + 1,
                                  Append(g, p.alts[first]))
           [] p.k = "opt" ->
                LET with == IF StartsAt(s, i, p.s)
                            THEN MatchFrom(s, i + Len(p.s), pat, k + 1, Append(g, p.s))
                            ELSE NoMatch
                IN IF with.ok THEN with
                   ELSE MatchFrom(s, i, pat, k + 1, Append(g, <<>>))
           [] p.k = "nla" ->
                IF StartsAt(s, i, p.s) THEN NoMatch
                ELSE MatchFrom(s, i, pat, k + 1, g)

RECURSIVE Expand(_, _, _, _)
\* The parsed template's parts from the k-th on, with the groups g filled
\* in; group 0 is the whole match.
Expand(parts, g, whole, k) ==
    IF k > Len(parts) THEN <<>>
    ELSE (IF parts[k].k = "txt" THEN parts[k].s
          ELSE IF parts[k].n = 0 THEN whole ELSE g[parts[k].n])
         \o Expand(parts, g, whole, k + 1)

NumGroups(pat) == Cardinality({k \in 1..Len(pat) : pat[k].k \in {"grp", "opt"}})

(***************************************************************************)
(* re's parse_template.  The template is read token by token, a backslash  *)
(* and the character after it being one token: \g<name>, \0 and octal      *)
(* escapes, \1..\99, the escapes \a \b \f \n \r \t \v \\, and any other    *)
(* backslash and ASCII letter an error.  A character that has no literal   *)
(* here (a control character, the grave accent) is written chr(n).         *)
(***************************************************************************)
BACKSLASH == "\\"
DIGITS == <<"0", "1", "2", "3", "4", "5", "6", "7", "8", "9">>
OCTDIGITS == <<"0", "1", "2", "3", "4", "5", "6", "7">>
PRINTABLE ==
    <<" ", "!", "\"", "#", "$", "%", "&", "'", "(", ")", "*", "+",
      ",", "-", ".", "/", "0", "1", "2", "3", "4", "5", "6", "7",
      "8", "9", ":", ";", "<", "=", ">", "?", "@", "A", "B", "C",
      "D", "E", "F", "G", "H", "I", "J", "K", "L", "M", "N", "O",
      "P", "Q", "R", "S", "T", "U", "V", "W", "X", "Y", "Z", "[",
      "\\", "]", "^", "_", "chr(96)", "a", "b", "c", "d", "e", "f", "g",
      "h", "i", "j", "k", "l", "m", "n", "o", "p", "q", "r", "s",
      "t", "u", "v", "w", "x", "y", "z", "{", "|", "}", "~" >>

InSeq(ch, seq) == \E n \in 1..Len(seq) : seq[n] = ch
IsDigit(ch) == InSeq(ch, DIGITS)
IsOctDigit(ch) == InSeq(ch, OCTDIGITS)
DigitVal(ch) == (CHOOSE n \in 1..Len(DIGITS) : DIGITS[n] = ch) - 1
Ord(ch) == (CHOOSE n \in 1..Len(PRINTABLE) : PRINTABLE[n] = ch) + 31
IsAsciiLetter(ch) ==
    /\ InSeq(ch, PRINTABLE)
    /\ \/ Ord(ch) \in 65..90
       \/ Ord(ch) \in 97..122

\* chr(n)
Chr(n) ==
    IF n \in 32..126 THEN PRINTABLE[n - 31]
    ELSE CASE n = 9 -> "\t" [] n = 10 -> "\n" [] n = 12 -> "\f" [] n = 13 -> "\r"
           [] OTHER -> "chr(" \o ToString(n) \o ")"

\* ESCAPES: the character a backslash and ch stand for, 0 when there is none.
EscapeOf(ch) ==
    CASE ch = "a" -> 7 [] ch = "b" -> 8 [] ch = "f" -> 12 [] ch = "n" -> 10
      [] ch = "r" -> 13 [] ch = "t" -> 9 [] ch = "v" -> 11 [] ch = BACKSLASH -> 92
      [] OTHER -> 0

\* str.isidentifier, for ASCII names.
IsIdentifier(name) ==
    /\ name # <<>>
    /\ IsAsciiLetter(name[1]) \/ name[1] = "_"
    /\ \A n \in 1..Len(name) : IsAsciiLetter(name[n]) \/ IsDigit(name[n]) \/ name[n] = "_"

RECURSIVE DecimalValue(_)
DecimalValue(ds) ==
    IF ds = <<>> THEN 0
    ELSE 10 * DecimalValue(SubSeq(ds, 1, Len(ds) - 1)) + DigitVal(ds[Len(ds)])

RECURSIVE OctalValue(_)
OctalValue(ds) ==
    IF ds = <<>> THEN 0
    ELSE 8 * OctalValue(SubSeq(ds, 1, Len(ds) - 1)) + DigitVal(ds[Len(ds)])

\* The characters int() strips from both ends of its argument, by code
\* point (the Unicode white space but for the separators 28..31).
INT_SPACES ==
    {9, 10, 11, 12, 13, 32, 133, 160, 5760} \cup (8192..8202)
    \cup {8232, 8233, 8239, 8287, 12288}

\* The code points of the digits zero of the scripts that have decimal
\* digits, other than ASCII; the digits 1 to 9 of a script follow its zero.
DECIMAL_ZEROS ==
    {1632, 1776, 1984, 2406, 2534, 2662, 2790, 2918, 3046, 3174, 3302,
     3430, 3558, 3664, 3792, 3872, 4160, 4240, 6112, 6160, 6470, 6608,
     6784, 6800, 6992, 7088, 7232, 7248, 42528, 43216, 43264, 43472, 43504,
     43600, 44016, 65296, 66720, 68912, 69734, 69872, 69942, 70096, 70384,
     70736, 70864, 71248, 71360, 71472, 71904, 72016, 72784, 73040, 73120,
     92768, 92864, 93008, 120782, 120792, 120802, 120812, 120822, 123200,
     123632, 125264, 130032}

IsIntSpace(ch) == \E n \in INT_SPACES : ch = Chr(n)

\* The value of a decimal digit of any script, -1 for another character.
DecimalOf(ch) ==
    IF IsDigit(ch) THEN DigitVal(ch)
    ELSE IF InSeq(ch, PRINTABLE) THEN -1
    ELSE LET hits == {h \in DECIMAL_ZEROS \X (0..9) : ch = Chr(h[1] + h[2])}
         IN IF hits = {} THEN -1 ELSE (CHOOSE h \in hits : TRUE)[2]

IsDecimal(ch) == DecimalOf(ch) >= 0

RECURSIVE IntValue(_)
IntValue(ds) ==
    IF ds = <<>> THEN 0
    ELSE 10 * IntValue(SubSeq(ds, 1, Len(ds) - 1)) + DecimalOf(ds[Len(ds)])

\* int(name) of a group name that is no identifier: white space around it,
\* a sign, and decimal digits (of any script) with single underscores
\* between them.  -1 for a name int rejects or a negative number.
IntOfName(name) ==
    LET inner == {n \in 1..Len(name) : ~IsIntSpace(name[n])}
        lo == CHOOSE n \in inner : \A o \in inner : n <= o
        hi == CHOOSE n \in inner : \A o \in inner : n >= o
        signed == name[lo] \in {"+", "-"}
        body == SubSeq(name, IF signed THEN lo + 1 ELSE lo, hi)
        digits == SelectSeq(body, IsDecimal)
        wellFormed ==
            /\ body # <<>>
            /\ IsDecimal(body[1]) /\ IsDecimal(body[Len(body)])
            /\ \A n \in 1..Len(body) :
                   \/ IsDecimal(body[n])
                   \/ body[n] = "_" /\ n > 1 /\ body[n - 1] # "_"
    IN IF inner = {} THEN -1
       ELSE IF ~wellFormed THEN -1
       ELSE IF name[lo] = "-" /\ IntValue(digits) > 0 THEN -1
       ELSE IntValue(digits)

BadTemplate == [ok |-> FALSE, parts |-> <<>>]
Then(parts, rest) ==
    IF rest.ok THEN [ok |-> TRUE, parts |-> parts \o rest.parts] ELSE rest

RECURSIVE ParseFrom(_, _, _)
\* The template t from position i on, for a pattern with `groups` groups.
ParseFrom(t, i, groups) ==
    LET marks == {j \in i..Len(t) : t[j] = BACKSLASH} IN
    IF marks = {} THEN [ok |-> TRUE, parts |-> <<Txt(SubSeq(t, i, Len(t)))>>]
    ELSE
    LET j == CHOOSE m \in marks : \A o \in marks : m <= o
        before == <<Txt(SubSeq(t, i, j - 1))>>
        At(n) == IF n <= Len(t) THEN t[n] ELSE ""
        c == At(j + 1)
        Group(index, next) ==
            IF index > groups THEN BadTemplate
            ELSE Then(before \o <<Ref(index)>>, ParseFrom(t, next, groups))
        Char(ch, next) == Then(before \o <<Txt(<<ch>>)>>, ParseFrom(t, next, groups))
    IN
    IF j = Len(t) THEN BadTemplate
    ELSE IF c = "g" THEN
        LET closes == {n \in (j + 3)..Len(t) : t[n] = ">"}
            close == CHOOSE n \in closes : \A o \in closes : n <= o
            name == SubSeq(t, j + 3, close - 1)
        IN IF At(j + 2) # "<" \/ closes = {} THEN BadTemplate
           ELSE IF name = <<>> THEN BadTemplate
           ELSE IF IsIdentifier(name) THEN BadTemplate
           ELSE IF IntOfName(name) < 0 THEN BadTemplate
           ELSE Group(IntOfName(name), close + 1)
    ELSE IF c = "0" THEN
        LET n == IF IsOctDigit(At(j + 2))
                 THEN IF IsOctDigit(At(j + 3)) THEN 3 ELSE 2
                 ELSE 1
        IN Char(Chr(OctalValue(SubSeq(t, j + 1, j + n)) % 256), j + n + 1)
    ELSE IF IsDigit(c) THEN
        IF IsDigit(At(j + 2))
        THEN IF IsOctDigit(c) /\ IsOctDigit(At(j + 2)) /\ IsOctDigit(At(j + 3))
             THEN IF OctalValue(SubSeq(t, j + 1, j + 3)) > 255 THEN BadTemplate
                  ELSE Char(Chr(OctalValue(SubSeq(t, j + 1, j + 3))), j + 4)
             ELSE Group(DecimalValue(SubSeq(t, j + 1, j + 2)), j + 3)
        ELSE Group(DigitVal(c), j + 2)
    ELSE IF EscapeOf(c) # 0 THEN Char(Chr(EscapeOf(c)), j + 2)
    ELSE IF IsAsciiLetter(c) THEN BadTemplate
    ELSE Then(before \o <<Txt(<<BACKSLASH, c>>)>>, ParseFrom(t, j + 2, groups))

ParseTemplate(pat, tmpl) == ParseFrom(tmpl, 1, NumGroups(pat))

\* pattern.sub(template, ...) raises when re cannot parse the template or
\* the template names a group the pattern does not have, whether or not the
\* pattern matches anywhere.
TemplateValid(pat, tmpl) == ParseTemplate(pat, tmpl).ok

RECURSIVE SubFrom(_, _, _, _)
\* pattern.sub(template, s) from position i on, for the parsed template: the
\* leftmost match at or after i is replaced, the text before it copied, and
\* the scan goes on after it.
SubFrom(s, i, pat, tmpl) ==
    LET hits == {j \in i..Len(s) :
                    LET m == MatchFrom(s, j, pat, 1, <<>>) IN m.ok /\ m.end > j}
    IN IF hits = {} THEN SubSeq(s, i, Len(s))
       ELSE LET j == CHOOSE h \in hits : \A o \in hits : h <= o
                m == MatchFrom(s, j, pat, 1, <<>>)
            IN SubSeq(s, i, j - 1) \o Expand(tmpl, m.g, SubSeq(s, j, m.end - 1), 1)
               \o SubFrom(s, m.end, pat, tmpl)

\* pattern.sub(tmpl, s) for a template re accepts.
Sub(pat, tmpl, s) == SubFrom(s, 1, pat, ParseTemplate(pat, tmpl).parts)

\* str.replace(".", "/")
DotsToSlashes(s) == [i \in 1..Len(s) |-> IF s[i] = "." THEN "/" ELSE s[i]]

RECURSIVE EscapedWithDots(_, _, _, _)
\* re.escape(token) with every escaped dot then replaced by the group (sep):
\* the literal runs of the token between its dots, a group for each dot.
EscapedWithDots(tok, i, run, sep) ==
    LET lit == IF run = <<>> THEN <<>> ELSE <<Lit(run)>> IN
    IF i > Len(tok) THEN lit
    ELSE IF tok[i] = "."
         THEN lit \o <<Grp(<<sep>>)>> \o EscapedWithDots(tok, i + 1, <<>>, sep)
         ELSE EscapedWithDots(tok, i + 1, Append(run, tok[i]), sep)

(***************************************************************************)
(* WhatsAppCloneConfig.  A configuration c is a record with the fields     *)
(* current_folder_name, new_package_name, new_folder_name,                 *)
(* new_package_name_path and custom_search_pattern (<<>> when not set).    *)
(***************************************************************************)
\* "Business" in self.config.current_folder_name
IsBusiness(c) == Contains(c.current_folder_name, BUSINESS)

HasCustom(c) == c.custom_search_pattern # <<>>

(***************************************************************************)
(* SmaliProcessor                                                          *)
(***************************************************************************)
package_pattern1(c) ==
    IF HasCustom(c) THEN EscapedWithDots(c.custom_search_pattern, 1, <<>>, SLASH)
    ELSE IF IsBusiness(c)
         THEN <<Lit(COM), Grp(<<SLASH>>), Lit(WHATSAPP), Opt(SLASH \o W4B)>>
         ELSE <<Lit(COM), Grp(<<SLASH>>), Lit(WHATSAPP)>>

package_pattern2(c) ==
    IF HasCustom(c) THEN EscapedWithDots(c.custom_search_pattern, 1, <<>>, DOT)
    ELSE IF IsBusiness(c)
         THEN <<Lit(COM), Grp(<<DOT>>), Lit(WHATSAPP), Opt(DOT \o W4B)>>
         ELSE <<Lit(COM), Grp(<<DOT>>), Lit(WHATSAPP)>>

official_package_pattern(c) ==
    <<Grp(<<DOT>>), Lit(c.new_package_name), Grp(<<DOT>>), Grp(OFFICIAL_MODULES)>>

official_packageP_pattern(c) ==
    <<Grp(<<DOT, SLASH>>), Lit(c.new_package_name_path), Grp(<<DOT, SLASH>>),
      Grp(OFFICIAL_MODULES)>>

\* explicit_w4b_pattern1 with the w4b segment optional, as in package_pattern1.
explicit_w4b_optional == <<Lit(COM), Grp(<<SLASH>>), Lit(WHATSAPP), Opt(SLASH \o W4B)>>

explicit_w4b_pattern1 == <<Lit(COM), Grp(<<SLASH>>), Lit(WHATSAPP), Grp(<<SLASH \o W4B>>)>>
explicit_w4b_pattern2 == <<Lit(COM), Grp(<<DOT>>), Lit(WHATSAPP), Grp(<<DOT \o W4B>>)>>
core_wa_pattern1 == <<Lit(COM), Grp(<<SLASH>>), Lit(WHATSAPP), Nla(SLASH \o W4B)>>
core_wa_pattern2 == <<Lit(COM), Grp(<<DOT>>), Lit(WHATSAPP), Nla(DOT \o W4B)>>

\* f'com\\1{self.config.new_package_name_path}' and its dotted twin
PathTemplate(c) == COM \o <<BACKSLASH, "1">> \o c.new_package_name_path
NameTemplate(c) == COM \o <<BACKSLASH, "1">> \o c.new_package_name
\* f'com\\1whatsapp'
CoreTemplate == COM \o <<BACKSLASH, "1">> \o WHATSAPP
\* r'\1whatsapp.w4b\2\3', r'\1whatsapp/w4b\2\3' and r'\1whatsapp\2\3'
RestoreDottedW4B == <<BACKSLASH, "1">> \o WHATSAPP \o DOT \o W4B \o <<BACKSLASH, "2", BACKSLASH, "3">>
RestoreSlashW4B == <<BACKSLASH, "1">> \o WHATSAPP \o SLASH \o W4B \o <<BACKSLASH, "2", BACKSLASH, "3">>
RestorePlain == <<BACKSLASH, "1">> \o WHATSAPP \o <<BACKSLASH, "2", BACKSLASH, "3">>

\* process_file, lines 276-296: the replacement of the package references.
SmaliMain(c, content) ==
    IF IsBusiness(c)
    THEN LET c1 == Sub(explicit_w4b_pattern1, PathTemplate(c), content)
             c2 == Sub(explicit_w4b_pattern2, NameTemplate(c), c1)
             c3 == Sub(core_wa_pattern1, CoreTemplate, c2)
         IN Sub(core_wa_pattern2, CoreTemplate, c3)
    ELSE LET c1 == Sub(package_pattern1(c), PathTemplate(c), content)
         IN Sub(package_pattern2(c), NameTemplate(c), c1)

\* process_file, lines 298-304: the official modules go back to whatsapp.
SmaliRestore(c, content) ==
    IF IsBusiness(c)
    THEN LET c1 == Sub(official_package_pattern(c), RestoreDottedW4B, content)
         IN Sub(official_packageP_pattern(c), RestoreSlashW4B, c1)
    ELSE LET c1 == Sub(official_package_pattern(c), RestorePlain, content)
         IN Sub(official_packageP_pattern(c), RestorePlain, c1)

\* A substitution of process_file raises (re.error) when re rejects its
\* template: a search pattern without a dot (no group 1), a package name
\* that begins with a digit (com\12..) or holds a backslash.
SmaliRaises(c) ==
    IF IsBusiness(c)
    THEN \/ ~TemplateValid(explicit_w4b_pattern1, PathTemplate(c))
         \/ ~TemplateValid(explicit_w4b_pattern2, NameTemplate(c))
    ELSE \/ ~TemplateValid(package_pattern1(c), PathTemplate(c))
         \/ ~TemplateValid(package_pattern2(c), NameTemplate(c))

\* The text SmaliProcessor.process_file writes back for the text it read.
SmaliRewrite(c, content) == SmaliRestore(c, SmaliMain(c, content))

(***************************************************************************)
(* XmlProcessor                                                            *)
(***************************************************************************)
xml_package_pattern(c) ==
    IF HasCustom(c) THEN <<Lit(c.custom_search_pattern)>>
    ELSE IF IsBusiness(c)
         THEN <<Lit(COM \o DOT \o WHATSAPP), Opt(DOT \o W4B)>>
         ELSE <<Lit(COM \o DOT \o WHATSAPP)>>

sticker_pattern(c) ==
    IF HasCustom(c) THEN <<Lit(STICKER_HEAD \o c.custom_search_pattern \o STICKER_TAIL)>>
    ELSE IF IsBusiness(c)
         THEN <<Lit(STICKER_HEAD \o COM \o DOT \o WHATSAPP), Opt(DOT \o W4B),
                Lit(STICKER_TAIL)>>
         ELSE <<Lit(STICKER_HEAD \o COM \o DOT \o WHATSAPP \o STICKER_TAIL)>>

folder_pattern(c) == <<Lit(c.current_folder_name)>>

xml_official_package_pattern(c) ==
    <<Grp(<<DOT>>), Lit(c.new_package_name), Grp(<<DOT>>), Grp(OFFICIAL_MODULES)>>

\* f'com.{self.config.new_package_name}'
XmlNameTemplate(c) == COM \o DOT \o c.new_package_name
\* f'android:name="com.{self.config.new_package_name}.sticker.READ"'
XmlStickerTemplate(c) == STICKER_HEAD \o COM \o DOT \o c.new_package_name \o STICKER_TAIL

\* process_file, lines 351-355: package, sticker permission, folder name.
XmlMain(c, content) ==
    LET c1 == Sub(xml_package_pattern(c), XmlNameTemplate(c), content)
        c2 == Sub(sticker_pattern(c), XmlStickerTemplate(c), c1)
    IN Sub(folder_pattern(c), c.new_folder_name, c2)

\* process_file, lines 357-360.
XmlRestore(c, content) ==
    IF IsBusiness(c)
    THEN Sub(xml_official_package_pattern(c), RestoreDottedW4B, content)
    ELSE Sub(xml_official_package_pattern(c), RestorePlain, content)

\* A substitution of process_file raises (re.error) when re rejects its
\* template: a package name or a folder name that holds a backslash.
XmlRaises(c) ==
    \/ ~TemplateValid(xml_package_pattern(c), XmlNameTemplate(c))
    \/ ~TemplateValid(sticker_pattern(c), XmlStickerTemplate(c))
    \/ ~TemplateValid(folder_pattern(c), c.new_folder_name)

\* The text XmlProcessor.process_file writes back for the text it read.
XmlRewrite(c, content) == XmlRestore(c, XmlMain(c, content))

\* The two categories, by the extension their files carry.
MainOf(cat, c, content) ==
    IF cat = "smali" THEN SmaliMain(c, content) ELSE XmlMain(c, content)
RestoreOf(cat, c, content) ==
    IF cat = "smali" THEN SmaliRestore(c, content) ELSE XmlRestore(c, content)
Raises(cat, c) == IF cat = "smali" THEN SmaliRaises(c) ELSE XmlRaises(c)

\* setup_from_args / setup_interactively: the configuration a caller's choices
\* give; new_package_name_path is always derived from new_package_name.
Config(folder, package, name, search) ==
    [current_folder_name |-> folder,
     new_package_name |-> package,
     new_folder_name |-> name,
     new_package_name_path |-> DotsToSlashes(package),
     custom_search_pattern |-> search]

(***************************************************************************)
(* The rules applied to one text: the inputs.                              *)
(*                                                                         *)
(* A text is a list of items, each closed by ";".  An item is a list of    *)
(* segments joined by one delimiter: a package reference such as           *)
(* com/whatsapp/util/Foo, or a single segment such as a folder name.       *)
(***************************************************************************)
MaxItems == 2

TWOGO == <<"2", "g", "o">>
MY_APP == <<"M", "y", BACKSLASH, "A", "p", "p">>
MYAPP == <<"m","y","a","p","p">>
WHATSAPP2 == <<"w","h","a","t","s","a","p","p","2">>
UNIVERSE == <<"u","n","i","v","e","r","s","e">>
MESSENGER == <<"m","e","s","s","e","n","g","e","r">>
GBWHATSAPP == <<"g","b","w","h","a","t","s","a","p","p">>
CLONE == <<"C","l","o","n","e">>
MYWHATSAPP == <<"M","y","W","h","a","t","s","A","p","p">>
FOO == <<"F","o","o">>
UTIL == <<"u","t","i","l">>
UTILITY == <<"u","t","i","l","i","t","y">>
STICKER == <<"s","t","i","c","k","e","r">>
END == ";"

RECURSIVE Join(_, _)
Join(segs, d) ==
    IF segs = <<>> THEN <<>>
    ELSE IF Len(segs) = 1 THEN segs[1]
         ELSE segs[1] \o <<d>> \o Join(Tail(segs), d)

ItemText(item) == Join(item.segs, item.d)

RECURSIVE TextOf(_)
TextOf(items) ==
    IF items = <<>> THEN <<>>
    ELSE ItemText(Head(items)) \o <<END>> \o TextOf(Tail(items))

\* The pieces of a text that the character sep closes, in order.
Split(text, sep) ==
    LET ends == {i \in 1..Len(text) : text[i] = sep}
        EndOf(k) == CHOOSE e \in ends : Cardinality({x \in ends : x <= e}) = k
        StartOf(k) == IF k = 1 THEN 1 ELSE EndOf(k - 1) + 1
    IN [k \in 1..Cardinality(ends) |-> SubSeq(text, StartOf(k), EndOf(k) - 1)]

\* The items of a text, as it reads now.
Pieces(text) == Split(text, END)

\* The segments of a dotted name.
Segments(name) == Split(name \o <<".">>, ".")

Bare == <<COM, WHATSAPP>>
Variant == <<COM, WHATSAPP, W4B>>
Universe == <<COM, UNIVERSE, MESSENGER>>
References ==
    {[segs |-> Bare \o tail, d |-> d] :
        tail \in {<<FOO>>, <<UTIL>>, <<UTILITY>>}, d \in {"/", "."}}
    \cup {[segs |-> base \o tail, d |-> d] :
        base \in {Variant, Universe}, tail \in {<<FOO>>, <<UTIL>>}, d \in {"/", "."}}
    \cup {[segs |-> Bare \o <<UTIL, FOO>>, d |-> "/"]}

\* What only markup holds: the display name of the application and the
\* sticker permission.
MarkupItems ==
    {[segs |-> <<FOLDER_WHATSAPP>>, d |-> "."],
     [segs |-> <<FOLDER_BUSINESS>>, d |-> "."],
     [segs |-> <<FOLDER_BUSINESS_NBSP>>, d |-> "."],
     [segs |-> <<STICKER_HEAD \o COM, WHATSAPP, STICKER, <<"R","E","A","D","\"">>>>, d |-> "."]}

ItemsOf(cat) ==
    IF cat = "smali" THEN References
    ELSE {r \in References : r.d = "." \/ r.segs = Bare \o <<UTIL>>} \cup MarkupItems

RECURSIVE ItemLists(_, _)
ItemLists(cat, n) ==
    IF n = 0 THEN {<<>>}
    ELSE {<<i>> \o rest : i \in ItemsOf(cat), rest \in ItemLists(cat, n - 1)}

\* The jobs: both kinds of file, WhatsApp and WhatsApp Business, a plain, an
\* overlapping and a dotted package name, with and without a search pattern
\* (one of several segments, and one without a dot); and names that are no
\* replacement template: a package name that begins with a digit, a folder
\* name that holds a backslash; and what setup_interactively sets: its name
\* of WhatsApp Business, and for the mode Auto the package
\* universe.messenger with the folder name kept; what setup_from_args sets
\* for --mode 1: the package whatsapp or whatsapp.w4b with the folder name
\* kept; and package names that are words of the rules themselves: w4b and
\* the official module util.
Jobs ==
    {[cat |-> cat, c |-> Config(folder, MYAPP, CLONE, search)] :
        cat \in {"smali", "xml"}, folder \in {FOLDER_WHATSAPP, FOLDER_BUSINESS},
        search \in {<<>>, Join(Universe, ".")}}
    \cup {[cat |-> "smali", c |-> Config(FOLDER_WHATSAPP, MYAPP, CLONE, GBWHATSAPP)]}
    \cup {[cat |-> cat, c |-> Config(folder, Join(<<UNIVERSE, MESSENGER>>, "."), CLONE, <<>>)] :
        cat \in {"smali", "xml"}, folder \in {FOLDER_WHATSAPP, FOLDER_BUSINESS}}
    \cup {[cat |-> cat, c |-> Config(FOLDER_WHATSAPP, WHATSAPP2, MYWHATSAPP, <<>>)] :
        cat \in {"smali", "xml"}}
    \cup {[cat |-> "smali", c |-> Config(folder, TWOGO, CLONE, <<>>)] :
        folder \in {FOLDER_WHATSAPP, FOLDER_BUSINESS}}
    \cup {[cat |-> "xml", c |-> Config(FOLDER_WHATSAPP, MYAPP, MY_APP, <<>>)]}
    \cup {[cat |-> cat, c |-> Config(FOLDER_BUSINESS_NBSP, MYAPP, CLONE, <<>>)] :
        cat \in {"smali", "xml"}}
    \cup {[cat |-> "xml", c |-> Config(folder, Join(<<UNIVERSE, MESSENGER>>, "."), folder, <<>>)] :
        folder \in {FOLDER_WHATSAPP, FOLDER_BUSINESS_NBSP}}
    \cup {[cat |-> cat, c |-> Config(FOLDER_WHATSAPP, WHATSAPP, FOLDER_WHATSAPP, <<>>)] :
        cat \in {"smali", "xml"}}
    \cup {[cat |-> cat, c |-> Config(FOLDER_BUSINESS, Join(<<WHATSAPP, W4B>>, "."),
                                     FOLDER_BUSINESS, <<>>)] :
        cat \in {"smali", "xml"}}
    \cup {[cat |-> cat, c |-> Config(folder, package, CLONE, <<>>)] :
        cat \in {"smali", "xml"}, folder \in {FOLDER_WHATSAPP, FOLDER_BUSINESS},
        package \in {W4B, UTIL}}

VARIABLES job, items, buf, mid, out, again, stage

VARIABLES config, root_folder, args, workers, max_workers, tree, pc, cur, built, listed,
          queue, fstate, content, disk, calls, results, summary, interrupted, cancel

ruleVars == <<job, items, buf, mid, out, again, stage>>
runVars == <<config, root_folder, args, workers, max_workers, tree, pc, cur, built, listed,
             queue, fstate, content, disk, calls, results, summary, interrupted,
             cancel>>
vars == <<ruleVars, runVars>>

\* No run: the rules are applied to one text.
NoRun ==
    /\ config = <<>> /\ root_folder = "" /\ args = <<>> /\ workers = <<>> /\ max_workers = 0
    /\ tree = {}
    /\ pc = "none" /\ cur = "none" /\ built = {} /\ listed = {}
    /\ queue = <<>> /\ fstate = <<>> /\ content = <<>> /\ disk = <<>>
    /\ calls = <<>> /\ results = <<>> /\ summary = <<>> /\ interrupted = FALSE
    /\ cancel = <<>>

RuleInit ==
    /\ job \in Jobs
    /\ \E n \in 1..MaxItems : items \in ItemLists(job.cat, n)
    /\ buf = TextOf(items)
    /\ mid = <<>>
    /\ out = <<>>
    /\ again = <<>>
    /\ stage = "input"
    /\ NoRun

\* A byte that no UTF-8 text holds.
INVALID_BYTE == "byte(255)"

\* open(file_path, 'r', encoding='utf-8', errors='ignore'): the bytes that
\* are no UTF-8 text are dropped.
Decode(bytes) == SelectSeq(bytes, LAMBDA b : b # INVALID_BYTE)

\* Text mode with newline=None: a carriage return and line feed, or a
\* carriage return alone, is read as one line feed.
UniversalNewlines(s) ==
    IF \A i \in 1..Len(s) : s[i] # "\r" THEN s
    ELSE
    LET keep == {i \in 1..Len(s) : ~(s[i] = "\r" /\ i < Len(s) /\ s[i + 1] = "\n")}
        At(k) == CHOOSE i \in keep : Cardinality({j \in keep : j <= i}) = k
    IN [k \in 1..Cardinality(keep) |-> IF s[At(k)] = "\r" THEN "\n" ELSE s[At(k)]]

\* f.read() in process_file: the text of the bytes a file holds.
ReadText(bytes) == UniversalNewlines(Decode(bytes))

\* process_file on a file that holds buf: what it computes and writes back,
\* or the exception it catches before it writes anything.
Apply ==
    /\ stage = "input"
    /\ IF Raises(job.cat, job.c)
       THEN /\ stage' = "failed"
            /\ UNCHANGED <<mid, out>>
       ELSE /\ stage' = "applied"
            /\ mid' = MainOf(job.cat, job.c, ReadText(buf))
            /\ out' = RestoreOf(job.cat, job.c, mid')
    /\ UNCHANGED <<job, items, buf, again>>
    /\ UNCHANGED runVars

\* process_file once more, on the file the first run wrote.
Reapply ==
    /\ stage = "applied"
    /\ stage' = "reapplied"
    /\ again' = RestoreOf(job.cat, job.c, MainOf(job.cat, job.c, ReadText(out)))
    /\ UNCHANGED <<job, items, buf, mid, out>>
    /\ UNCHANGED runVars

RuleNext == Apply \/ Reapply

RuleSpec == RuleInit /\ [][RuleNext]_vars

(***************************************************************************)
(* What the claims say of one application of the rules.                    *)
(***************************************************************************)
Applied == stage = "applied"
Cfg == job.c
OutPieces == Pieces(out)
MidPieces == Pieces(mid)

HasPrefix(segs, base) ==
    Len(segs) >= Len(base) /\ SubSeq(segs, 1, Len(base)) = base
After(segs, base) == SubSeq(segs, Len(base) + 1, Len(segs))

IsBareRef(item) == HasPrefix(item.segs, Bare) /\ ~HasPrefix(item.segs, Variant)
IsVariantRef(item) == HasPrefix(item.segs, Variant)

Reserved(seg) == \E m \in 1..Len(OFFICIAL_MODULES) : seg = OFFICIAL_MODULES[m]
BeginsReserved(seg) == \E m \in 1..Len(OFFICIAL_MODULES) : StartsAt(seg, 1, OFFICIAL_MODULES[m])

\* The new package as an occurrence with delimiter d reads it.
NewName(d) == IF d = "/" THEN Cfg.new_package_name_path ELSE Cfg.new_package_name
NewForm(item, base) == Join(<<COM, NewName(item.d)>> \o After(item.segs, base), item.d)
NewVariantForm(item, base) ==
    Join(<<COM, NewName(item.d), W4B>> \o After(item.segs, base), item.d)

\* The namespace the official modules live in.
OriginalNamespace == IF IsBusiness(Cfg) THEN Variant ELSE Bare

\* The source tokens the main substitution of the job rewrites.
SourceTokens ==
    IF job.cat = "smali"
    THEN IF IsBusiness(Cfg) THEN {Variant}
         ELSE IF HasCustom(Cfg) THEN {Segments(Cfg.custom_search_pattern)} ELSE {Bare}
    ELSE IF HasCustom(Cfg) THEN {Segments(Cfg.custom_search_pattern)}
         ELSE IF IsBusiness(Cfg) THEN {Bare, Variant} ELSE {Bare}

\* Item k is a source token followed by an official module, in a form the main
\* substitution of the job's kind of file reads.
ProtectedSource(k, src) ==
    /\ HasPrefix(items[k].segs, src)
    /\ Len(items[k].segs) > Len(src)
    /\ Reserved(items[k].segs[Len(src) + 1])
    /\ job.cat = "xml" => items[k].d = "."

\* <delimiter><new package><delimiter><official module> somewhere in text.
HoldsNewOfficial(text) ==
    \E i \in 1..Len(text), d1, d2 \in {DOT, SLASH}, m \in 1..Len(OFFICIAL_MODULES) :
        \/ StartsAt(text, i, d1 \o Cfg.new_package_name \o d2 \o OFFICIAL_MODULES[m])
        \/ StartsAt(text, i, d1 \o Cfg.new_package_name_path \o d2 \o OFFICIAL_MODULES[m])

BothForms ==
    /\ \E k \in 1..Len(items) : IsBareRef(items[k])
    /\ \E k \in 1..Len(items) : IsVariantRef(items[k])

PlainTail(item, base) == ~BeginsReserved(item.segs[Len(base) + 1])

\* C1 as the specification states it: in a .smali text of WhatsApp Business
\* that holds a bare and a w4b reference, the bare one becomes the new base
\* form and the w4b one the new form with its w4b segment.
C1_BareToNewBase ==
    Applied /\ job.cat = "smali" /\ IsBusiness(Cfg) /\ BothForms =>
        \A k \in 1..Len(items) :
            /\ IsBareRef(items[k]) /\ PlainTail(items[k], Bare) =>
                   OutPieces[k] = NewForm(items[k], Bare)
            /\ IsVariantRef(items[k]) /\ PlainTail(items[k], Variant) =>
                   OutPieces[k] = NewVariantForm(items[k], Variant)

\* C1, amended: in a .smali text of WhatsApp Business that holds a bare and a
\* w4b reference, neither followed by a segment that begins with the name of
\* an official module, the w4b reference becomes com/<new package path>
\* (com.<new package>) without a w4b segment and the bare reference is left
\* as it was; neither takes the other's form.
C1_VariantRenamedBareKept ==
    Applied /\ job.cat = "smali" /\ IsBusiness(Cfg) /\ BothForms =>
        \A k \in 1..Len(items) :
            /\ IsBareRef(items[k]) /\ PlainTail(items[k], Bare) =>
                   OutPieces[k] = ItemText(items[k])
            /\ IsVariantRef(items[k]) /\ PlainTail(items[k], Variant) =>
                   OutPieces[k] = NewForm(items[k], Variant)

C1_Witness ==
    /\ Applied /\ job.cat = "smali" /\ IsBusiness(Cfg) /\ Len(items) = 2
    /\ IsBareRef(items[1]) /\ PlainTail(items[1], Bare)
    /\ IsVariantRef(items[2]) /\ PlainTail(items[2], Variant)
    /\ items[1].d = "/" /\ items[2].d = "."
    /\ out # buf

\* C2: a source token followed by an official module is first renamed by the
\* main substitution and then reads the original namespace again; the new
\* package followed by the official module is not left in it.  In particular
\* com/whatsapp/util/Foo is written back as com/whatsapp/util/Foo for
\* WhatsApp and the package myapp.
C2_ProtectedRestored ==
    Applied =>
        /\ \A k \in 1..Len(items) : \A src \in SourceTokens :
               ProtectedSource(k, src) =>
                   /\ MidPieces[k] = NewForm(items[k], src)
                   /\ OutPieces[k] =
                          Join(OriginalNamespace \o After(items[k].segs, src), items[k].d)
                   /\ ~HoldsNewOfficial(OutPieces[k])
        /\ /\ job = [cat |-> "smali", c |-> Config(FOLDER_WHATSAPP, MYAPP, CLONE, <<>>)]
           /\ buf = <<"c","o","m","/","w","h","a","t","s","a","p","p","/","u","t","i","l","/","F","o","o",";">>
           => /\ mid = <<"c","o","m","/","m","y","a","p","p","/","u","t","i","l","/","F","o","o",";">>
              /\ out = <<"c","o","m","/","w","h","a","t","s","a","p","p","/","u","t","i","l","/","F","o","o",";">>

\* C3: a reference to an official module (com.whatsapp.<module>, and for
\* WhatsApp Business also com.whatsapp.w4b.<module>; dotted in both kinds of
\* file, with slashes in .smali) is written back exactly as it was read.
C3_ProtectedUnchanged ==
    Applied =>
        \A k \in 1..Len(items) :
            /\ \/ IsBareRef(items[k]) /\ Reserved(items[k].segs[3])
               \/ IsBusiness(Cfg) /\ IsVariantRef(items[k]) /\ Reserved(items[k].segs[4])
            /\ job.cat = "xml" => items[k].d = "."
            => OutPieces[k] = ItemText(items[k])

\* C4: the rules applied to a text they have already rewritten change nothing.
C4_Idempotent == stage = "reapplied" => again = out

\* C5: an item read with "/" between its segments is written with no ".",
\* and an item read with "." is written with no "/".
C5_DelimiterSymmetry ==
    Applied =>
        \A k \in 1..Len(items) : \A i \in 1..Len(OutPieces[k]) :
            OutPieces[k][i] \in {"/", "."} => OutPieces[k][i] = items[k].d

\* The custom search pattern of the job, as segments.
CustomToken == Segments(Cfg.custom_search_pattern)

\* C12: with a custom search pattern, for WhatsApp and WhatsApp Business and
\* both kinds of file, every occurrence of the pattern (dotted, and with
\* slashes in .smali) is renamed to the new package, and a com.whatsapp or
\* com.whatsapp.w4b reference that is no occurrence of the pattern is left
\* as it was.
C12_CustomTokenOverrides ==
    Applied /\ HasCustom(Cfg) =>
        \A k \in 1..Len(items) :
            /\ /\ HasPrefix(items[k].segs, CustomToken)
               /\ job.cat = "xml" => items[k].d = "."
               /\ PlainTail(items[k], CustomToken)
               => OutPieces[k] = NewForm(items[k], CustomToken)
            /\ /\ IsBareRef(items[k]) \/ IsVariantRef(items[k])
               /\ ~HasPrefix(items[k].segs, CustomToken)
               => OutPieces[k] = ItemText(items[k])

\* C16: for WhatsApp, in both kinds of file, a source token followed by a
\* segment that is not the name of an official module is renamed to the new
\* package, also when the segment begins with such a name (utility); only a
\* segment that is such a name is given back the original namespace.
C16_OnlyExactNamesRestored ==
    Applied /\ ~IsBusiness(Cfg) =>
        \A k \in 1..Len(items) : \A src \in SourceTokens :
            /\ HasPrefix(items[k].segs, src)
            /\ Len(items[k].segs) > Len(src)
            /\ ~Reserved(items[k].segs[Len(src) + 1])
            /\ job.cat = "xml" => items[k].d = "."
            => OutPieces[k] = NewForm(items[k], src)

(***************************************************************************)
(* The run: main, WhatsAppCloner.run, FileProcessor.process_all_files and  *)
(* the threads of its ThreadPoolExecutor, each in process_file.            *)
(*                                                                         *)
(* tree holds the files under the root folder.  fstate[f] is where the     *)
(* task of file f stands: "none" (never submitted), "pending" (submitted,  *)
(* not started), "read" (started), "rewrite" (its text read), "write"      *)
(* (opened for writing, which empties it), "true" / "false" (process_file  *)
(* returned) or "cancelled".  disk[f] is the text the file holds, and      *)
(* interrupted tells that a KeyboardInterrupt was raised, and cancel holds  *)
(* the futures the iterator over the results has still to cancel.          *)
(***************************************************************************)
MaxFiles == 5
MaxWorkers == 1
DefaultWorkers == 4
FallbackWorkers == 4

Categories == <<"smali", "xml">>
FileExts == <<"smali", "smali", "xml", "txt", "smali">>
Ext(f) == FileExts[((f - 1) % Len(FileExts)) + 1]

\* The files whose name, or the name of a folder above them, begins with a
\* dot.
FileHidden == <<FALSE, FALSE, FALSE, FALSE, TRUE>>
Hidden(f) == FileHidden[((f - 1) % Len(FileHidden)) + 1]

\* What file f holds before the run, byte by byte: the name of the official
\* package, which the .xml files follow with an undecodable byte, a carriage
\* return and a line feed.
Original(f) ==
    Join(Bare, IF Ext(f) = "smali" THEN "/" ELSE ".")
    \o (IF Ext(f) = "xml" THEN <<INVALID_BYTE, "\r", "\n">> ELSE <<>>)

\* What process_file writes for the text it read from a file of kind cat.
Rewrite(cat, c, text) == RestoreOf(cat, c, MainOf(cat, c, text))

\* The --workers option on the command line: not given, or given with a
\* number (type=int takes any integer).
WorkerOptions ==
    {[given |-> FALSE, value |-> 0]}
    \cup {[given |-> TRUE, value |-> n] : n \in (-1)..MaxWorkers}

\* parse_arguments, lines 416-419: args.workers is the number given, or the
\* default of the option.
ArgsWorkers(option) == IF option.given THEN option.value ELSE DefaultWorkers

\* parse_arguments, line 430: self.config.max_workers = args.workers or 4
WorkersOf(arg) == IF arg = 0 THEN FallbackWorkers ELSE arg

\* The root folder of a run: a path that is no folder, a folder, and a
\* folder whose name holds a character class of glob (no folder wa1 stands
\* beside it).
RootFolders == {"missing", "wa", "wa[1]"}

\* os.path.isdir(self.config.root_folder)
root_is_dir == root_folder \in {"wa", "wa[1]"}

\* The root folder is a glob pattern that matches its own name; wa[1]
\* matches the name wa1 only.
MatchesItself(root) == root # "wa[1]"

\* get_files: glob.glob(root/**/*.<cat>, recursive=True) lists the files of
\* the tree with the category's extension, at any depth; "*" and "**" match
\* no name that begins with a dot, and the root folder is read as a pattern
\* too.
get_files(cat) ==
    {f \in tree : Ext(f) = cat /\ ~Hidden(f) /\ MatchesItself(root_folder)}

\* The trees of a run: the first files, or one file alone.
Trees == {1..n : n \in 0..MaxFiles} \cup {{f} : f \in 1..MaxFiles}

RECURSIVE InOrder(_)
InOrder(fs) ==
    IF fs = {} THEN <<>>
    ELSE LET f == CHOOSE x \in fs : \A y \in fs : x <= y
         IN <<f>> \o InOrder(fs \ {f})

\* The files process_all_files handed to executor.map, in that order.
Submitted == InOrder(get_files(cur))

Running == {f \in tree : fstate[f] \in {"read", "rewrite", "write"}}

NoRule ==
    /\ job = <<>> /\ items = <<>> /\ buf = <<>> /\ mid = <<>> /\ out = <<>>
    /\ again = <<>> /\ stage = "none"

\* What main is started with, besides --workers.  folder is the root
\* folder, named on the command line (folder_given) or at the first prompt;
\* from_args tells that the folder, --whatsapp-type and --mode are all on
\* the command line (parse_arguments, line 432), and then package, name and
\* search are --package, --name and --search-pattern (empty when absent);
\* otherwise the kind, the mode, the package, the folder name and the search
\* pattern are what Prompt.ask returns at the prompts.  (The program starts
\* only where rich is installed: line 149 names Table, which the import of
\* rich binds.)
Args(folder, folder_given, from_args, whatsapp_type, mode, package, name, search) ==
    [folder |-> folder, folder_given |-> folder_given, from_args |-> from_args,
     whatsapp_type |-> whatsapp_type, mode |-> mode, package |-> package,
     name |-> name, search |-> search]

\* The command lines and answers of the runs: --mode 2 with and without
\* --package and --name; --mode 1 for both kinds; --mode 3 with and without
\* --search-pattern; and at the prompts, with the folder on the command line
\* or asked for: WhatsApp Business with a package and a name, an empty
\* package or folder name, the mode Auto, and the mode Custom ALL.
ArgsInputs ==
    {Args(folder, TRUE, TRUE, 1, 2, package, name, <<>>) :
        folder \in RootFolders, package \in {<<>>, MYAPP, TWOGO}, name \in {<<>>, CLONE}}
    \cup {Args(folder, TRUE, TRUE, whatsapp_type, 1, <<>>, <<>>, <<>>) :
             folder \in RootFolders, whatsapp_type \in {1, 2}}
    \cup {Args(folder, TRUE, TRUE, 1, 3, MYAPP, CLONE, search) :
             folder \in RootFolders, search \in {<<>>, Join(Universe, ".")}}
    \cup {Args(folder, folder_given, FALSE, a[1], a[2], a[3], a[4], a[5]) :
             folder \in RootFolders, folder_given \in BOOLEAN,
             a \in {<<2, 2, MYAPP, CLONE, <<>>>>,
                    <<1, 2, <<>>, CLONE, <<>>>>,
                    <<1, 2, MYAPP, <<>>, <<>>>>,
                    <<1, 1, <<>>, <<>>, <<>>>>,
                    <<1, 3, MYAPP, CLONE, Join(Universe, ".")>>}}

\* WhatsAppCloneConfig.__init__, lines 139-145
DefaultConfig == Config(<<>>, <<>>, <<>>, <<>>)

\* The state of main after parse_arguments has set the root folder, if the
\* command line names one, and the number of threads (lines 427-430): the
\* configuration is still empty, and the files are as they are on disk.  A
\* path that is no folder has no files under it; the trees of several files
\* are run with --mode 2 and a number of threads that is not 0 (which runs
\* as the 4 of no --workers does).
Init ==
    /\ NoRule
    /\ args \in ArgsInputs
    /\ root_folder = IF args.folder_given THEN args.folder ELSE ""
    /\ config = DefaultConfig
    /\ workers \in WorkerOptions
    /\ max_workers = WorkersOf(ArgsWorkers(workers))
    /\ tree \in Trees
    /\ args.folder = "missing" => tree = {}
    /\ ~(args.from_args /\ args.mode = 2) => Cardinality(tree) <= 1
    /\ workers.given /\ workers.value = 0 => Cardinality(tree) <= 1
    /\ pc = "start"
    /\ cur = "none"
    /\ built = {}
    /\ listed = {}
    /\ queue = <<>>
    /\ fstate = [f \in tree |-> "none"]
    /\ content = [f \in tree |-> <<>>]
    /\ disk = [f \in tree |-> Original(f)]
    /\ calls = [f \in tree |-> 0]
    /\ results = <<>>
    /\ summary = [cat \in {"smali", "xml"} |-> <<>>]
    /\ interrupted = FALSE
    /\ cancel = <<>>

\* setup_from_args, lines 439-444: the name of the application and the
\* package of --mode 1.
ArgsFolder == IF args.whatsapp_type = 1 THEN FOLDER_WHATSAPP ELSE FOLDER_BUSINESS
ArgsDefaultPkg == IF args.whatsapp_type = 1 THEN WHATSAPP ELSE Join(<<WHATSAPP, W4B>>, ".")

\* setup_from_args, lines 450 and 459: what --mode 2 and --mode 3 require
\* is not all there.
ArgsMissing ==
    \/ args.package = <<>>
    \/ args.name = <<>>
    \/ args.mode = 3 /\ args.search = <<>>

\* main, lines 672-673, into setup_from_args, lines 438-469: --mode 1 takes
\* the package of the application and keeps its name; --mode 2 without
\* --package or --name, and --mode 3 without one of them or
\* --search-pattern, logs the error and ends the process with sys.exit(1),
\* which no handler of main catches.
SetupFromArgs ==
    /\ pc = "start"
    /\ args.from_args
    /\ IF args.mode = 1
       THEN /\ config' = Config(ArgsFolder, ArgsDefaultPkg, ArgsFolder, <<>>)
            /\ pc' = "run"
       ELSE IF ArgsMissing
            THEN /\ config' = Config(ArgsFolder, <<>>, <<>>, <<>>)
                 /\ pc' = "refused"
            ELSE /\ config' = Config(ArgsFolder, args.package, args.name,
                                     IF args.mode = 3 THEN args.search ELSE <<>>)
                 /\ pc' = "run"
    /\ UNCHANGED <<root_folder, args, workers, max_workers, tree, cur, built, listed,
                   queue, fstate, content, disk, calls, results, summary, interrupted,
                   cancel>>
    /\ UNCHANGED ruleVars

\* setup_interactively, lines 503-508: the name of the application (with a
\* no-break space for WhatsApp Business) and the package offered.
AskedFolder == IF args.whatsapp_type = 1 THEN FOLDER_WHATSAPP ELSE FOLDER_BUSINESS_NBSP
AskedDefaultPkg == Join(<<UNIVERSE, MESSENGER>>, ".")

\* Where main waits at a prompt of setup_interactively.
Prompts == {"ask_kind", "ask_mode", "ask_package", "ask_name", "ask_search"}

\* The set-up goes from one prompt to the next and changes the
\* configuration on the way.
Asked(next, c) ==
    /\ pc' = next
    /\ config' = c
    /\ UNCHANGED <<root_folder, args, workers, max_workers, tree, cur, built, listed,
                   queue, fstate, content, disk, calls, results, summary, interrupted,
                   cancel>>
    /\ UNCHANGED ruleVars

\* main, lines 675-676, into setup_interactively, lines 472-479: the root
\* folder is asked for unless the command line names it.
AskRootFolder ==
    /\ pc = "start"
    /\ ~args.from_args
    /\ pc' = "ask_kind"
    /\ root_folder' = IF root_folder = "" THEN args.folder ELSE root_folder
    /\ UNCHANGED <<config, args, workers, max_workers, tree, cur, built, listed,
                   queue, fstate, content, disk, calls, results, summary, interrupted,
                   cancel>>
    /\ UNCHANGED ruleVars

\* setup_interactively, lines 481-508: WhatsApp or WhatsApp Business.
AskKind ==
    /\ pc = "ask_kind"
    /\ Asked("ask_mode", [config EXCEPT !.current_folder_name = AskedFolder])

\* setup_interactively, lines 510-534 and 571: the mode; Auto takes the
\* package offered and keeps the name of the application.
AskMode ==
    /\ pc = "ask_mode"
    /\ IF args.mode = 1
       THEN Asked("run", Config(AskedFolder, AskedDefaultPkg, AskedFolder, <<>>))
       ELSE Asked("ask_package", config)

\* setup_interactively, lines 537-540 and 549-552: the package name is what
\* Prompt.ask returns, the empty text too.
AskPackage ==
    /\ pc = "ask_package"
    /\ Asked("ask_name", [config EXCEPT !.new_package_name = args.package])

\* setup_interactively, lines 541-544 and 553-556: the folder name; after it
\* the mode Custom is at line 571, where the path of the package is set.
AskName ==
    /\ pc = "ask_name"
    /\ IF args.mode = 2
       THEN Asked("run", Config(AskedFolder, config.new_package_name, args.name, <<>>))
       ELSE Asked("ask_search", [config EXCEPT !.new_folder_name = args.name])

\* setup_interactively, lines 557-561 and 571: the search pattern of the
\* mode Custom ALL.
AskSearch ==
    /\ pc = "ask_search"
    /\ Asked("run", Config(AskedFolder, config.new_package_name,
                           config.new_folder_name, args.search))

\* validate_config without the check of the root folder.
validate_config_no_isdir ==
    /\ config.new_package_name # <<>>
    /\ config.new_folder_name # <<>>

validate_config ==
    /\ root_is_dir
    /\ config.new_package_name # <<>>
    /\ config.new_folder_name # <<>>

\* run, lines 599-600: an invalid configuration ends the run here, and main
\* returns.
ValidateConfig ==
    /\ pc = "run"
    /\ IF validate_config
       THEN pc' = "begin" /\ cur' = "smali"
       ELSE pc' = "rejected" /\ cur' = cur
    /\ UNCHANGED <<config, root_folder, args, workers, max_workers, tree, built, listed, queue,
                   fstate, content, disk, calls, results, summary, interrupted, cancel>>
    /\ UNCHANGED ruleVars

\* Where run goes on once a category has its counts.
AfterCategory ==
    IF cur = "smali" THEN pc' = "begin" /\ cur' = "xml"
    ELSE pc' = "done" /\ cur' = cur

\* run, lines 607 and 620: the processor of the category is built.
Build ==
    /\ pc = "begin"
    /\ cur \notin built
    /\ built' = built \cup {cur}
    /\ UNCHANGED <<config, root_folder, args, workers, max_workers, tree, pc, cur, listed, queue,
                   fstate, content, disk, calls, results, summary, interrupted, cancel>>
    /\ UNCHANGED ruleVars

\* run, lines 608 and 621, into process_all_files, line 189: the files are
\* listed.
ProcessAllFiles ==
    /\ pc = "begin"
    /\ cur \in built
    /\ cur \notin listed
    /\ listed' = listed \cup {cur}
    /\ UNCHANGED <<config, root_folder, args, workers, max_workers, tree, pc, cur, built, queue,
                   fstate, content, disk, calls, results, summary, interrupted, cancel>>
    /\ UNCHANGED ruleVars

\* process_all_files, lines 190-195: with no file listed "No ... files
\* found" is logged and the counts (0, 0) are returned to run.
NoFilesFound ==
    /\ pc = "begin"
    /\ cur \in listed
    /\ get_files(cur) = {}
    /\ summary' = [summary EXCEPT ![cur] = <<0, 0>>]
    /\ AfterCategory
    /\ UNCHANGED <<config, root_folder, args, workers, max_workers, tree, built, listed, queue,
                   fstate, content, disk, calls, results, interrupted, cancel>>
    /\ UNCHANGED ruleVars

\* process_all_files, lines 210 and 218: ThreadPoolExecutor(max_workers)
\* makes the pool, or raises ValueError for a number below 1, which main
\* catches (lines 686-692) to end with sys.exit(1); then executor.map is
\* called.
MakePool ==
    /\ pc = "begin"
    /\ cur \in listed
    /\ get_files(cur) # {}
    /\ IF max_workers <= 0
       THEN /\ pc' = "exited"
            /\ UNCHANGED <<queue, results>>
       ELSE /\ pc' = "submit"
            /\ queue' = <<>>
            /\ results' = <<>>
    /\ UNCHANGED <<config, root_folder, args, workers, max_workers, tree, cur, built, listed,
                   fstate, content, disk, calls, summary, interrupted, cancel>>
    /\ UNCHANGED ruleVars

\* The listed files executor.map has not yet submitted.
Unsubmitted == {f \in get_files(cur) : fstate[f] = "none"}

\* executor.map, fs = [self.submit(fn, *args) ...]: the main thread submits
\* the listed files one after the other, while the threads of the pool
\* already take them; after the last one it iterates over the results.
Submit ==
    /\ pc = "submit"
    /\ LET f == Submitted[Len(Submitted) - Cardinality(Unsubmitted) + 1]
       IN /\ queue' = Append(queue, f)
          /\ fstate' = [fstate EXCEPT ![f] = "pending"]
    /\ pc' = IF Cardinality(Unsubmitted) = 1 THEN "collect" ELSE "submit"
    /\ UNCHANGED <<config, root_folder, args, workers, max_workers, tree, cur, built, listed,
                   content, disk, calls, results, summary, interrupted, cancel>>
    /\ UNCHANGED ruleVars

\* A pool that starts a thread for every submitted file.
StartTaskUnbounded(f) ==
    /\ \E i \in 1..Len(queue) : queue[i] = f
    /\ queue' = SelectSeq(queue, LAMBDA g : g # f)
    /\ fstate' = [fstate EXCEPT ![f] = "read"]
    /\ calls' = [calls EXCEPT ![f] = @ + 1]
    /\ UNCHANGED <<config, root_folder, args, workers, max_workers, tree, pc, cur, built, listed,
                   content, disk, results, summary, interrupted, cancel>>
    /\ UNCHANGED ruleVars

\* A thread of the pool calls process_file for a submitted file.
\* ThreadPoolExecutor(max_workers) has at most max_workers threads; each
\* that is not in process_file takes the next file off the work queue, in
\* the order of submission, and the threads that hold a file call
\* process_file in any order.  (queue holds the files whose future is still
\* pending, taken by a thread or not.)
StartTask(f) ==
    /\ \E i \in 1..Len(queue) :
          /\ queue[i] = f
          /\ i <= max_workers - Cardinality(Running)
    /\ queue' = SelectSeq(queue, LAMBDA g : g # f)
    /\ fstate' = [fstate EXCEPT ![f] = "read"]
    /\ calls' = [calls EXCEPT ![f] = @ + 1]
    /\ UNCHANGED <<config, root_folder, args, workers, max_workers, tree, pc, cur, built, listed,
                   content, disk, results, summary, interrupted, cancel>>
    /\ UNCHANGED ruleVars

\* process_file, lines 273-274 and 348-349: the file is opened and read as
\* text (undecodable bytes are dropped, never an error).
ReadOk(f) ==
    /\ fstate[f] = "read"
    /\ content' = [content EXCEPT ![f] = ReadText(disk[f])]
    /\ fstate' = [fstate EXCEPT ![f] = "rewrite"]
    /\ UNCHANGED <<config, root_folder, args, workers, max_workers, tree, pc, cur, built, listed,
                   queue, disk, calls, results, summary, interrupted, cancel>>
    /\ UNCHANGED ruleVars

\* A read failure that is not caught in process_file and ends the run.
ReadFailAborts(f) ==
    /\ fstate[f] = "read"
    /\ fstate' = [fstate EXCEPT ![f] = "false"]
    /\ pc' = "exited"
    /\ UNCHANGED <<config, root_folder, args, workers, max_workers, tree, cur, built, listed,
                   queue, content, disk, calls, results, summary, interrupted, cancel>>
    /\ UNCHANGED ruleVars

\* process_file: the file cannot be opened or read; the exception is caught
\* and process_file returns False.
ReadFail(f) ==
    /\ fstate[f] = "read"
    /\ fstate' = [fstate EXCEPT ![f] = "false"]
    /\ UNCHANGED <<config, root_folder, args, workers, max_workers, tree, pc, cur, built, listed,
                   queue, content, disk, calls, results, summary, interrupted, cancel>>
    /\ UNCHANGED ruleVars

\* process_file: the substitutions, then open(file_path, 'w'), which empties
\* the file.  A substitution that raises ends process_file with False before
\* the file is opened.
OpenOk(f) ==
    /\ fstate[f] = "rewrite"
    /\ IF Raises(Ext(f), config)
       THEN /\ fstate' = [fstate EXCEPT ![f] = "false"]
            /\ UNCHANGED <<content, disk>>
       ELSE /\ content' = [content EXCEPT ![f] = Rewrite(Ext(f), config, content[f])]
            /\ disk' = [disk EXCEPT ![f] = <<>>]
            /\ fstate' = [fstate EXCEPT ![f] = "write"]
    /\ UNCHANGED <<config, root_folder, args, workers, max_workers, tree, pc, cur, built, listed,
                   queue, calls, results, summary, interrupted, cancel>>
    /\ UNCHANGED ruleVars

\* process_file: open(file_path, 'w') raises; the file is as it was.
OpenFail(f) ==
    /\ fstate[f] = "rewrite"
    /\ ~Raises(Ext(f), config)
    /\ fstate' = [fstate EXCEPT ![f] = "false"]
    /\ UNCHANGED <<config, root_folder, args, workers, max_workers, tree, pc, cur, built, listed,
                   queue, content, disk, calls, results, summary, interrupted, cancel>>
    /\ UNCHANGED ruleVars

\* process_file: the text is written and the file closed; it returns True.
WriteOk(f) ==
    /\ fstate[f] = "write"
    /\ disk' = [disk EXCEPT ![f] = content[f]]
    /\ fstate' = [fstate EXCEPT ![f] = "true"]
    /\ UNCHANGED <<config, root_folder, args, workers, max_workers, tree, pc, cur, built, listed,
                   queue, content, calls, results, summary, interrupted, cancel>>
    /\ UNCHANGED ruleVars

\* process_file: write or close raises; the file, emptied by open, holds
\* nothing, any beginning of the text, or (where close raises after the
\* text went out) all of it, and process_file returns False.
WriteFail(f) ==
    /\ fstate[f] = "write"
    /\ \E n \in 0..Len(content[f]) :
           disk' = [disk EXCEPT ![f] = SubSeq(content[f], 1, n)]
    /\ fstate' = [fstate EXCEPT ![f] = "false"]
    /\ UNCHANGED <<config, root_folder, args, workers, max_workers, tree, pc, cur, built, listed,
                   queue, content, calls, results, summary, interrupted, cancel>>
    /\ UNCHANGED ruleVars

\* process_all_files, lines 212-214: the results come in the order the files
\* were submitted; main waits for the next one.
Collect ==
    /\ pc = "collect"
    /\ Len(results) < Len(Submitted)
    /\ fstate[Submitted[Len(results) + 1]] \in {"true", "false"}
    /\ results' = Append(results, fstate[Submitted[Len(results) + 1]] = "true")
    /\ UNCHANGED <<config, root_folder, args, workers, max_workers, tree, pc, cur, built, listed,
                   queue, fstate, content, disk, calls, summary, interrupted, cancel>>
    /\ UNCHANGED ruleVars

\* A count of the results that does not look at them.
SuccessCountAll(rs) == Len(rs)

\* sum(1 for result in results if result)
SuccessCount(rs) == Cardinality({i \in 1..Len(rs) : rs[i]})

\* A return of the counts that does not wait for the results of all the
\* submitted files.
ReturnWithoutWaiting ==
    /\ pc = "collect"
    /\ summary' = [summary EXCEPT ![cur] = <<Len(Submitted), SuccessCount(results)>>]
    /\ AfterCategory
    /\ UNCHANGED <<config, root_folder, args, workers, max_workers, tree, built, listed,
                   queue, fstate, content, disk, calls, results, interrupted, cancel>>
    /\ UNCHANGED ruleVars

\* process_all_files, lines 216-227: the pool is shut down and the counts
\* returned to run, which logs them.
Return ==
    /\ pc = "collect"
    /\ Len(results) = Len(Submitted)
    /\ summary' = [summary EXCEPT ![cur] = <<Len(Submitted), SuccessCount(results)>>]
    /\ AfterCategory
    /\ UNCHANGED <<config, root_folder, args, workers, max_workers, tree, built, listed,
                   queue, fstate, content, disk, calls, results, interrupted, cancel>>
    /\ UNCHANGED ruleVars

\* The submitted files from the k-th on, the last submitted first.
LastFirst(k) ==
    [i \in 1..(Len(Submitted) - k + 1) |-> Submitted[Len(Submitted) + 1 - i]]

\* The submitted files from the k-th on, in the order of submission.
FirstFirst(k) == SubSeq(Submitted, k, Len(Submitted))

\* The futures that are cancelled, in that order, when a KeyboardInterrupt
\* makes main leave the iteration over executor.map, of which k - 1 results
\* have come.  Where main waits for the k-th result, _result_or_cancel
\* cancels the k-th future and the finally of result_iterator the others,
\* the last submitted first (fs.reverse()).  Where result_iterator has
\* popped the k-th future and has not entered _result_or_cancel, only the
\* others are cancelled.  Where main is between two results the iterator is
\* closed, and all from the k-th on are cancelled, the last first.  Before
\* the first result is asked for the iterator has not begun and nothing is
\* cancelled, or it has not yet reversed its list.
ToCancel ==
    LET k == Len(results) + 1 IN
    IF k > Len(Submitted) THEN {<<>>}
    ELSE {<<Submitted[k]>> \o LastFirst(k + 1), LastFirst(k + 1), LastFirst(k)}
         \cup (IF k = 1 THEN {<<>>, FirstFirst(1)} ELSE {})

\* s ends t.
IsSuffix(s, t) == Len(s) <= Len(t) /\ s = SubSeq(t, Len(t) - Len(s) + 1, Len(t))

\* The first future to cancel is the awaited one, which _result_or_cancel
\* cancels in its own finally, before result_iterator's finally runs.
AwaitedFirst ==
    /\ Len(results) < Len(Submitted)
    /\ cancel = <<Submitted[Len(results) + 1]>> \o LastFirst(Len(results) + 2)

\* The futures left are cancelled by the loop of result_iterator's finally.
InFinallyLoop ==
    \/ IsSuffix(cancel, LastFirst(Len(results) + 1))
    \/ IsSuffix(cancel, LastFirst(Len(results) + 2))
    \/ results = <<>> /\ IsSuffix(cancel, FirstFirst(1))

\* What a second KeyboardInterrupt leaves to cancel: raised in the finally
\* of _result_or_cancel it skips the awaited future only, and
\* result_iterator's finally still cancels the others; raised in the loop
\* of that finally it ends the loop.
AfterSecond ==
    (IF AwaitedFirst THEN {Tail(cancel)} ELSE {})
    \cup (IF InFinallyLoop THEN {<<>>} ELSE {})

\* KeyboardInterrupt in the main thread.  During the set-up (at a prompt,
\* with the configuration as far as it was answered), before the pool
\* exists, after run has returned, and in the pause that ends run
\* (line 651), main catches it at once (lines 680-685).
\* While executor.map submits, it leaves map before the iterator over the
\* results exists: nothing is cancelled, and the with block
\* (shutdown(wait=True)) waits until the pool has run every file submitted
\* so far.  While main iterates over the results, it leaves the iterator,
\* which then cancels its futures one by one.  A second one cuts the
\* cancelling short (AfterSecond), or, where the with block waits for the
\* pool, makes main leave it and call sys.exit(1) while the threads of the
\* pool go on (the interpreter waits for them before the process ends).
KeyboardInterrupt ==
    /\ \/ /\ pc \in {"start", "run", "rejected", "begin", "done"} \cup Prompts
          /\ pc' = "exited"
          /\ cancel' = cancel
       \/ /\ pc = "submit"
          /\ pc' = "unwind"
          /\ cancel' = cancel
       \/ /\ pc = "collect"
          /\ pc' = "unwind"
          /\ cancel' \in ToCancel
       \/ /\ pc = "unwind"
          /\ IF cancel # <<>>
             THEN pc' = pc /\ cancel' \in AfterSecond
             ELSE pc' = "exited" /\ cancel' = cancel
    /\ interrupted' = TRUE
    /\ UNCHANGED <<config, root_folder, args, workers, max_workers, tree, cur, built, listed,
                   queue, fstate, content, disk, calls, results, summary>>
    /\ UNCHANGED ruleVars

\* future.cancel(): a future no thread has taken yet is cancelled and will
\* not run; one that runs or is finished stays as it is.  The threads of the
\* pool go on taking files between two calls.
Cancel ==
    /\ pc = "unwind"
    /\ cancel # <<>>
    /\ cancel' = Tail(cancel)
    /\ IF fstate[Head(cancel)] = "pending"
       THEN /\ fstate' = [fstate EXCEPT ![Head(cancel)] = "cancelled"]
            /\ queue' = SelectSeq(queue, LAMBDA g : g # Head(cancel))
       ELSE UNCHANGED <<fstate, queue>>
    /\ UNCHANGED <<config, root_folder, args, workers, max_workers, tree, pc, cur, built, listed,
                   content, disk, calls, results, summary, interrupted>>
    /\ UNCHANGED ruleVars

\* main, lines 680-685: the futures are cancelled, the pool has nothing left
\* to run and its threads have finished; "Process interrupted by user" and
\* sys.exit(1).
Exit ==
    /\ pc = "unwind"
    /\ cancel = <<>>
    /\ queue = <<>>
    /\ Running = {}
    /\ pc' = "exited"
    /\ UNCHANGED <<config, root_folder, args, workers, max_workers, tree, cur, built, listed,
                   queue, fstate, content, disk, calls, results, summary, interrupted, cancel>>
    /\ UNCHANGED ruleVars

Next ==
    \/ SetupFromArgs
    \/ AskRootFolder
    \/ AskKind
    \/ AskMode
    \/ AskPackage
    \/ AskName
    \/ AskSearch
    \/ ValidateConfig
    \/ Build
    \/ ProcessAllFiles
    \/ NoFilesFound
    \/ MakePool
    \/ Submit
    \/ Collect
    \/ Return
    \/ KeyboardInterrupt
    \/ Cancel
    \/ Exit
    \/ \E f \in tree :
          \/ StartTask(f)
          \/ ReadOk(f)
          \/ ReadFail(f)
          \/ OpenOk(f)
          \/ OpenFail(f)
          \/ WriteOk(f)
          \/ WriteFail(f)

Spec == Init /\ [][Next]_vars

(***************************************************************************)
(* What the claims say of the run.                                         *)
(***************************************************************************)
Watched == get_files("smali") \cup get_files("xml")
Finished(cat) == {f \in get_files(cat) : fstate[f] \in {"true", "false"}}
Failed(cat) == {f \in get_files(cat) : fstate[f] = "false"}
Succeeded(cat) == {f \in get_files(cat) : fstate[f] = "true"}
Rewritten(f) == Rewrite(Ext(f), config, ReadText(Original(f)))

\* The steps of the main thread other than the interrupt, and the start of a
\* task.  (A thread at work always has its next step in process_file.)
Progress ==
    \/ SetupFromArgs
    \/ AskRootFolder \/ AskKind \/ AskMode \/ AskPackage \/ AskName \/ AskSearch
    \/ ValidateConfig \/ Build \/ ProcessAllFiles \/ NoFilesFound \/ MakePool
    \/ Submit \/ Collect
    \/ Return \/ Cancel \/ Exit
    \/ \E f \in tree : StartTask(f)

\* C6: the counts process_all_files returns for a category of N files of
\* which F failed are (N, N - F), whatever the number of threads and their
\* interleaving; succeeded is at most found, and no file gives (0, 0).
C6_ExactAccounting ==
    \A cat \in {"smali", "xml"} :
        summary[cat] # <<>> =>
            /\ summary[cat] =
                   <<Cardinality(get_files(cat)),
                     Cardinality(get_files(cat)) - Cardinality(Failed(cat))>>
            /\ Finished(cat) = get_files(cat)
            /\ summary[cat][2] <= summary[cat][1]
            /\ get_files(cat) = {} => summary[cat] = <<0, 0>>

C6_Witness ==
    /\ pc = "done" /\ max_workers > 1
    /\ summary["smali"] = <<2, 1>>
    /\ get_files("xml") = {} /\ summary["xml"] = <<0, 0>>

\* C7: a file that fails is recorded as failed and stops nothing: only an
\* interrupt, or a pool that cannot be made, ends the run early; the run
\* always has a step to take until it ends; and at its end every listed file
\* has its outcome, every file that did not fail holds exactly its rewritten
\* text, and both categories have their counts.
C7_FaultIsolation ==
    /\ pc \in {"unwind", "exited"} => interrupted \/ max_workers < 1
    /\ pc \notin {"done", "refused", "rejected", "exited"} =>
          Running # {} \/ ENABLED Progress
    /\ pc = "done" =>
          /\ \A f \in Watched :
                /\ fstate[f] \in {"true", "false"}
                /\ fstate[f] = "true" => disk[f] = Rewritten(f)
          /\ \A cat \in {"smali", "xml"} : summary[cat] # <<>>

C7_Witness ==
    /\ pc = "done"
    /\ \E f, g \in get_files("smali") :
          /\ f < g /\ fstate[f] = "false" /\ disk[f] = Original(f)
          /\ fstate[g] = "true" /\ disk[g] = Rewritten(g) /\ disk[g] # Original(g)
    /\ Succeeded("xml") # {}

\* C8: whenever no thread is between opening a file for writing and closing
\* it, the file holds its whole original text or its whole rewritten text.
C8_NoPartialWrites ==
    \A f \in tree :
        fstate[f] # "write" => disk[f] = Original(f) \/ disk[f] = Rewritten(f)

\* What the claims call a configuration error.
InvalidConfiguration ==
    \/ ~root_is_dir
    \/ config.new_package_name = <<>>
    \/ config.new_folder_name = <<>>

\* C9: with a root folder that is no directory, an empty package name or an
\* empty folder name the run does not start: no processor is built, no file
\* listed, read or written, and no counts are produced.
C9_InvalidConfigTouchesNothing ==
    InvalidConfiguration =>
        /\ pc \in {"start", "run", "refused", "rejected", "exited"} \cup Prompts
        /\ built = {} /\ listed = {}
        /\ \A f \in tree : fstate[f] = "none" /\ calls[f] = 0 /\ disk[f] = Original(f)
        /\ \A cat \in {"smali", "xml"} : summary[cat] = <<>>

C9_Witness ==
    /\ pc = "rejected" /\ args.from_args /\ ~root_is_dir
    /\ config.new_package_name = MYAPP /\ config.new_folder_name = CLONE

\* C10: a run that passed validation ends with the counts of both
\* categories surfaced, also after an interrupt, where they count the files
\* finished so far.
C10_ResultAlwaysSurfaced ==
    ~InvalidConfiguration /\ pc \in {"done", "exited"} =>
        \A cat \in {"smali", "xml"} :
            /\ summary[cat] # <<>>
            /\ summary[cat][2] = Cardinality(Succeeded(cat))

\* The files whose processing has not begun.
NotBegun == {f \in tree : fstate[f] \in {"none", "pending", "cancelled"}}

\* C11: once a KeyboardInterrupt was raised no file whose processing had not
\* begun is started, in this category or the next; a file in flight is never
\* given up (its thread goes on to its outcome, also after main has called
\* sys.exit); and a file process_file has written is not changed again.
C11_Cancellation ==
    /\ [][interrupted => \A f \in NotBegun : fstate'[f] \in {"none", "pending", "cancelled"}]_vars
    /\ [][\A f \in Running : fstate'[f] \in {"read", "rewrite", "write", "true", "false"}]_vars
    /\ [][\A f \in tree : fstate[f] = "true" => disk'[f] = disk[f]]_vars

\* The files under the root folder with the extension of a category.
WithExtension(cat) == {f \in tree : Ext(f) = cat}
Processed(cat) == {f \in tree : Ext(f) = cat /\ calls[f] > 0}

\* C13: no file is processed more than once and no file of another
\* extension is processed at all, and when the run is done the files
\* processed in a category are exactly the files under the root folder with
\* its extension.
C13_ExactlyOnce ==
    /\ \A f \in tree :
          /\ calls[f] <= 1
          /\ Ext(f) \notin {"smali", "xml"} => calls[f] = 0
    /\ pc = "done" =>
          \A cat \in {"smali", "xml"} : Processed(cat) = WithExtension(cat)

\* C14: the files in flight are never more than the number of worker
\* threads (and none is in flight when that number is not positive); the
\* number is the positive one given with --workers, or 4 when the option is
\* not given.
C14_BoundedParallelism ==
    /\ Cardinality(Running) <= (IF max_workers >= 1 THEN max_workers ELSE 0)
    /\ workers.given /\ workers.value >= 1 => max_workers = workers.value
    /\ ~workers.given => max_workers = 4

C14_Witness ==
    /\ workers.given /\ max_workers = 1
    /\ Cardinality(Running) = max_workers
    /\ queue # <<>>

\* File f has been handed to the pool, read or written.
Touched(f) == fstate[f] # "none" \/ calls[f] > 0 \/ disk[f] # Original(f)

\* C15: no .xml file is submitted, read or written before every listed
\* .smali file has its outcome and the counts of the .smali files are set,
\* and these counts never change afterwards.
C15_DrainOrder ==
    /\ [](\A f \in WithExtension("xml") :
              Touched(f) =>
                  /\ summary["smali"] # <<>>
                  /\ \A g \in get_files("smali") : fstate[g] \in {"true", "false"})
    /\ [][summary["smali"] # <<>> => summary'["smali"] = summary["smali"]]_vars

C15_Witness ==
    /\ pc = "collect" /\ cur = "xml"
    /\ \E f \in get_files("xml") : fstate[f] = "write"
    /\ summary["smali"] = <<2, 1>>
    /\ summary["xml"] = <<>>

====
